---- MODULE Spec2Model ----
(***************************************************************************)
(* Model of the roster scheduler of src/views/roster.py.                   *)
(*                                                                         *)
(* generate_fair_roster is a function of its four arguments and of the     *)
(* process-global generator of the random module, which it re-seeds and    *)
(* then draws from.  The participant list and the first week_offset are    *)
(* fixed in Init; the caller builds skip_days and skip_assignments as the   *)
(* sidebar does; the call actions run the function (again with the same    *)
(* arguments, or for the following week); other code of the process draws  *)
(* from the same global generator in between.                              *)
(*                                                                         *)
(* ThreadSpec runs generate_fair_roster in several threads at once, each   *)
(* with its own arguments, on the one global generator.                    *)
(*                                                                         *)
(* DateSpec applies get_week_date_range to dates and week indexes.         *)
(*                                                                         *)
(* PageSpec is main() of the roster page: the sidebar widgets, the script  *)
(* runs with their validation, the loop over the weeks of a Generate       *)
(* click, what it stores in the session state, and the Regenerate and      *)
(* Clear buttons.                                                          *)
(*                                                                         *)
(* VideoSpec is the page of src/views/video_downloader.py: its cache       *)
(* directory, its session state, and the handlers of its buttons           *)
(* (Download Video, Extract Audio, Reset, Clear All Cache, Clear Old       *)
(* Cache).                                                                 *)
(*                                                                         *)
(* RetrySpec is download_with_retry_and_progress of                        *)
(* src/views/music_downloader.py: one pass of its loop per step, the       *)
(* outcome of download_audio being the input of the pass.                  *)
(*                                                                         *)
(* AnnounceSpec is the announcements page of src/views/announce.py: the    *)
(* two tables of its database, announcements being added as the clock of   *)
(* the database advances, and page loads of several users.                 *)
(***************************************************************************)
EXTENDS Integers, Sequences, FiniteSets, TLC

(***************************************************************************)
(* Bounds of the model.                                                    *)
(***************************************************************************)
MaxNames == 3          \* longest participant list
MaxOffset == 2         \* largest week_offset drawn in Init
MaxLabelled == 1       \* most skip days that carry a special label
MaxCalls == 2          \* calls of generate_fair_roster in one behaviour
MaxOtherUses == 1      \* draws other code makes from the global generator
MaxEntropy == 1        \* generator states the process may start in: 0..MaxEntropy
RngMod == 4096         \* size of the generator's state space
MaxThreads == 2        \* threads that call generate_fair_roster at once
MaxDayShift == 20      \* dates drawn: an anchor date plus 0..MaxDayShift days
MaxWeekIndex == 3      \* largest week index given to get_week_date_range
MaxWeeks == 2          \* largest "Number of weeks to plan" entered on the page
MaxVideoCalls == 2     \* calls of download_video_to_cache in one behaviour
MaxRetries == 3        \* largest max_retries given to download_with_retry_and_progress
MaxClock == 2          \* seconds the clock of the announcements database advances
MaxAnnouncements == 3  \* announcements added in one behaviour

(***************************************************************************)
(* Program constants.                                                      *)
(***************************************************************************)
MaxAttempts == 1000    \* roster.py:63  attempts < 1000

Days == <<"Monday", "Tuesday", "Wednesday", "Thursday", "Friday", "Saturday", "Sunday">>

DaySet == {Days[i] : i \in 1..Len(Days)}

DAY_OFF == "DAY OFF"

NO_ASSIGNMENT == "NO ASSIGNMENT"

\* the special label typed into the sidebar (its default, roster.py:252)
Labels == {"GENERAL CLEANING"}

NamePool == <<"A", "B", "C", "D", "E">>

(***************************************************************************)
(* The global generator of the random module, abstracted to a finite       *)
(* deterministic generator: a state in 0..RngMod-1, seed(k) sets the state *)
(* as a function of k alone, every draw advances the state.                *)
(***************************************************************************)
SeedState(k) == (k * 1597 + 51) % RngMod

seed_missing(a, current) == current

\* random.seed(a): the new state is a function of a alone, whatever the
\* current state
seed(a, current) == SeedState(a)

Advance(s) == (s * 1229 + 1) % RngMod

\* an integer in 0..m-1 taken from the high part of the state
RandBelow(s, m) == (s * m) \div RngMod

Swap(lst, i, j) == [lst EXCEPT ![i] = lst[j], ![j] = lst[i]]

\* random.shuffle: for i in reversed(range(1, len(x))): j = randbelow(i + 1); swap
RECURSIVE ShuffleFrom(_, _, _)
ShuffleFrom(lst, s, i) ==
    IF i < 2 THEN [lst |-> lst, rng |-> s]
    ELSE ShuffleFrom(Swap(lst, i, RandBelow(s, i) + 1), Advance(s), i - 1)

Shuffle(lst, s) == ShuffleFrom(lst, s, Len(lst))

(***************************************************************************)
(* generate_fair_roster, roster.py:15-78                                   *)
(***************************************************************************)
assign_days(skip_days) == SelectSeq(Days, LAMBDA d : d \notin skip_days)

has_adjacent_short(lst) == \E i \in 1..(Len(lst) - 2) : lst[i] = lst[i + 1]

has_adjacent(lst) == \E i \in 1..(Len(lst) - 1) : lst[i] = lst[i + 1]

Order_unrotated(names, week_offset) == names

\* order = [names[(week_offset + i) % n] for i in range(n)]
Order(names, week_offset) ==
    [i \in 1..Len(names) |-> names[((week_offset + (i - 1)) % Len(names)) + 1]]

Counts_front_loaded(order, base, extra) ==
    [name \in {order[i] : i \in 1..Len(order)} |->
        base + (IF order[1] = name THEN extra ELSE 0)]

\* the additional days given to the last `extra` positions of order
Counts_back_loaded(order, base, extra) ==
    [name \in {order[i] : i \in 1..Len(order)} |->
        LET last == CHOOSE i \in 1..Len(order) :
                        /\ order[i] = name
                        /\ \A j \in 1..Len(order) : order[j] = name => j <= i
        IN  base + (IF last > Len(order) - extra THEN 1 ELSE 0)]

\* counts = {name: base + (1 if idx < extra else 0) for idx, name in enumerate(order)}
\* a dict keyed by name: the entry of the last position holding the name stays
Counts(order, base, extra) ==
    [name \in {order[i] : i \in 1..Len(order)} |->
        LET last == CHOOSE i \in 1..Len(order) :
                        /\ order[i] = name
                        /\ \A j \in 1..Len(order) : order[j] = name => j <= i
        IN  base + (IF (last - 1) < extra THEN 1 ELSE 0)]

Repeat(x, k) == [i \in 1..k |-> x]

\* for name in order: assignments.extend([name] * counts[name])
RECURSIVE Extend(_, _, _)
Extend(order, counts, i) ==
    IF i > Len(order) THEN <<>>
    ELSE Repeat(order[i], counts[order[i]]) \o Extend(order, counts, i + 1)

Assignments(names, week_offset, total) ==
    LET n == Len(names)
        base == total \div n
        extra == total % n
        order == Order(names, week_offset)
    IN  Extend(order, Counts(order, base, extra), 1)

LoopState(sh, attempts) == [lst |-> sh.lst, rng |-> sh.rng, attempts |-> attempts]

\* a pass that shuffles again without counting it
LoopStep_uncounted(st) ==
    IF has_adjacent(st.lst) /\ st.attempts < MaxAttempts
    THEN LoopState(Shuffle(st.lst, st.rng), st.attempts)
    ELSE st

\* one pass of the while loop of roster.py:63-65
LoopStep(st) ==
    IF has_adjacent(st.lst) /\ st.attempts < MaxAttempts
    THEN LoopState(Shuffle(st.lst, st.rng), st.attempts + 1)
    ELSE st

\* k passes of the loop; a pass whose condition is false leaves the state alone
RECURSIVE LoopSteps(_, _)
LoopRest(half, k) ==
    IF has_adjacent(half.lst) /\ half.attempts < MaxAttempts
    THEN LoopSteps(half, k) ELSE half

LoopSteps(st, k) ==
    IF k = 0 THEN st
    ELSE IF k = 1 THEN LoopStep(st)
    ELSE LoopRest(LoopSteps(st, k \div 2), k - (k \div 2))

\* the first shuffle alone, never repeated
ShuffleLoop_no_retry(assignments, s0) == LoopState(Shuffle(assignments, s0), 0)

\* random.shuffle(assignments); while has_adjacent(...) and attempts < 1000: ...
\* started with the generator in state s0
ShuffleLoop(assignments, s0) ==
    LoopSteps(LoopState(Shuffle(assignments, s0), 0), MaxAttempts)

(***************************************************************************)
(* The inputs.                                                             *)
(***************************************************************************)
NameIndex(x) == CHOOSE i \in 1..Len(NamePool) : NamePool[i] = x

\* participant lists up to renaming: a name enters the list only after the
\* names before it in NamePool
ParticipantLists ==
    UNION {{s \in [1..len -> {NamePool[i] : i \in 1..MaxNames}] :
               \A i \in 1..len : \A k \in 1..(NameIndex(s[i]) - 1) :
                   \E j \in 1..(i - 1) : s[j] = NamePool[k]} : len \in 0..MaxNames}

EmptyRoster_empty(skip_assignments) == <<>>

\* the roster of the fully skipped week, roster.py:34-41
EmptyRoster(skip_assignments) ==
    [d \in 1..Len(Days) |->
        [Day |-> Days[d],
         Person |-> IF Days[d] \in DOMAIN skip_assignments
                    THEN skip_assignments[Days[d]] ELSE NO_ASSIGNMENT]]

\* the two tests in the other order: skip_days is looked at first
RECURSIVE MapWeek_skip_first(_, _, _, _, _, _)
MapWeek_skip_first(assignments, skip_days, skip_assignments, d, idx, roster) ==
    IF d > Len(Days) THEN [outcome |-> "returned", roster |-> roster, idx |-> idx]
    ELSE IF Days[d] \in skip_days
    THEN MapWeek_skip_first(assignments, skip_days, skip_assignments, d + 1, idx,
                 Append(roster, [Day |-> Days[d], Person |-> DAY_OFF]))
    ELSE IF Days[d] \in DOMAIN skip_assignments
    THEN MapWeek_skip_first(assignments, skip_days, skip_assignments, d + 1, idx,
                 Append(roster, [Day |-> Days[d], Person |-> skip_assignments[Days[d]]]))
    ELSE IF idx + 1 > Len(assignments)
    THEN [outcome |-> "IndexError", roster |-> <<>>, idx |-> idx]
    ELSE MapWeek_skip_first(assignments, skip_days, skip_assignments, d + 1, idx + 1,
                 Append(roster, [Day |-> Days[d], Person |-> assignments[idx + 1]]))

\* idx advanced before the entry is read
RECURSIVE MapWeek_index_ahead(_, _, _, _, _, _)
MapWeek_index_ahead(assignments, skip_days, skip_assignments, d, idx, roster) ==
    IF d > Len(Days) THEN [outcome |-> "returned", roster |-> roster, idx |-> idx]
    ELSE IF Days[d] \in DOMAIN skip_assignments
    THEN MapWeek_index_ahead(assignments, skip_days, skip_assignments, d + 1, idx,
                 Append(roster, [Day |-> Days[d], Person |-> skip_assignments[Days[d]]]))
    ELSE IF Days[d] \in skip_days
    THEN MapWeek_index_ahead(assignments, skip_days, skip_assignments, d + 1, idx,
                 Append(roster, [Day |-> Days[d], Person |-> DAY_OFF]))
    ELSE IF idx + 2 > Len(assignments)
    THEN [outcome |-> "IndexError", roster |-> <<>>, idx |-> idx]
    ELSE MapWeek_index_ahead(assignments, skip_days, skip_assignments, d + 1, idx + 1,
                 Append(roster, [Day |-> Days[d], Person |-> assignments[idx + 2]]))

\* a labelled skip day takes an entry off the list as well
RECURSIVE MapWeek_label_consumes(_, _, _, _, _, _)
MapWeek_label_consumes(assignments, skip_days, skip_assignments, d, idx, roster) ==
    IF d > Len(Days) THEN [outcome |-> "returned", roster |-> roster, idx |-> idx]
    ELSE IF Days[d] \in DOMAIN skip_assignments
    THEN MapWeek_label_consumes(assignments, skip_days, skip_assignments, d + 1, idx + 1,
                 Append(roster, [Day |-> Days[d], Person |-> skip_assignments[Days[d]]]))
    ELSE IF Days[d] \in skip_days
    THEN MapWeek_label_consumes(assignments, skip_days, skip_assignments, d + 1, idx,
                 Append(roster, [Day |-> Days[d], Person |-> DAY_OFF]))
    ELSE IF idx + 1 > Len(assignments)
    THEN [outcome |-> "IndexError", roster |-> <<>>, idx |-> idx]
    ELSE MapWeek_label_consumes(assignments, skip_days, skip_assignments, d + 1, idx + 1,
                 Append(roster, [Day |-> Days[d], Person |-> assignments[idx + 1]]))

\* Map to full week, roster.py:68-78; idx counts the entries consumed so far
RECURSIVE MapWeek(_, _, _, _, _, _)
MapWeek(assignments, skip_days, skip_assignments, d, idx, roster) ==
    IF d > Len(Days) THEN [outcome |-> "returned", roster |-> roster, idx |-> idx]
    ELSE IF Days[d] \in DOMAIN skip_assignments
    THEN MapWeek(assignments, skip_days, skip_assignments, d + 1, idx,
                 Append(roster, [Day |-> Days[d], Person |-> skip_assignments[Days[d]]]))
    ELSE IF Days[d] \in skip_days
    THEN MapWeek(assignments, skip_days, skip_assignments, d + 1, idx,
                 Append(roster, [Day |-> Days[d], Person |-> DAY_OFF]))
    ELSE IF idx + 1 > Len(assignments)
    THEN [outcome |-> "IndexError", roster |-> <<>>, idx |-> idx]
    ELSE MapWeek(assignments, skip_days, skip_assignments, d + 1, idx + 1,
                 Append(roster, [Day |-> Days[d], Person |-> assignments[idx + 1]]))

\* roster.py:43-65 for `total` assignable days, the generator being in state
\* s0 after random.seed
ShufflePhase(names, week_offset, total, s0) ==
    ShuffleLoop(Assignments(names, week_offset, total), s0)

\* The shuffle loop is a function of names, week_offset, total and s0.  It is
\* evaluated once, in Init, for the weeks a behaviour can call with and the
\* states a first call can seed from; a call reads the value there, and
\* evaluates the loop itself for any other key.
Cached(cache, key, value) == IF key \in DOMAIN cache THEN cache[key] ELSE value

RECURSIVE Advanced(_, _)
Advanced(states, k) ==
    IF k = 0 THEN states
    ELSE states \cup Advanced({Advance(s) : s \in states}, k - 1)

ShuffleCache(names, week_offset) ==
    IF Len(names) = 0 THEN <<>>
    ELSE [key \in {<<k, total, seed(k, r)>> :
                      k \in week_offset..(week_offset + MaxCalls - 1),
                      total \in 1..Len(Days),
                      r \in Advanced(0..MaxEntropy, MaxOtherUses)} |->
             ShufflePhase(names, key[1], key[2], key[3])]

\* what a call did: its outcome, the roster it returns, the number of repeat
\* shuffles, the shuffled flat list, the entries of it consumed, and the
\* generator state it leaves
Returned(sl, mw) ==
    [outcome |-> mw.outcome, roster |-> mw.roster, attempts |-> sl.attempts,
     idx |-> mw.idx, flat |-> sl.lst, rng |-> sl.rng]

MapShuffled(sl, skip_days, skip_assignments) ==
    Returned(sl, MapWeek(sl.lst, skip_days, skip_assignments, 1, 0, <<>>))

\* the whole function, called with the global generator in state rng0
generate_fair_roster(names, week_offset, skip_days, skip_assignments, rng0, cache) ==
    IF Len(assign_days(skip_days)) = 0
    THEN [outcome |-> "returned", roster |-> EmptyRoster(skip_assignments),
          attempts |-> 0, idx |-> 0, flat |-> <<>>, rng |-> rng0]
    ELSE IF Len(names) = 0
    THEN [outcome |-> "ZeroDivisionError", roster |-> <<>>,
          attempts |-> 0, idx |-> 0, flat |-> <<>>, rng |-> rng0]
    ELSE MapShuffled(Cached(cache,
                            <<week_offset, Len(assign_days(skip_days)),
                              seed(week_offset, rng0)>>,
                            ShufflePhase(names, week_offset, Len(assign_days(skip_days)),
                                         seed(week_offset, rng0))),
                     skip_days, skip_assignments)

NoResult == [outcome |-> "none", roster |-> <<>>, attempts |-> 0, idx |-> 0,
             flat |-> <<>>, rng |-> 0]

VARIABLES
    names,             \* argument: the participant list
    week_offset,       \* argument of the latest call
    skip_days,         \* argument: the set of skipped day labels
    skip_assignments,  \* argument: special labels of skipped days
    rng,               \* state of the process-global generator
    result,            \* what the latest call did
    prev,              \* what the call before it did
    prev_offset,       \* the week_offset of the call before it
    calls,             \* calls made so far
    other_uses,        \* draws made by other code so far
    shuffled,          \* the cache of shuffle loops, see ShuffleCache
    thr,               \* the threads inside generate_fair_roster, see ThreadSpec
    today,             \* date.today(), as a proleptic Gregorian ordinal
    wk,                \* the week index given to get_week_date_range
    week_range,        \* what the latest get_week_date_range did
    pc,                \* where main() of the roster page is
    weeks,             \* the number input "Number of weeks to plan"; 0 is None
    run,               \* the latest script run: the button's value, the message shown
    all_rosters,       \* the local list of the Generate handler
    csv_buffer,        \* the rows written to csv_writer so far
    session_state,     \* st.session_state of the roster page
    cache_dir,         \* the names of the files in CACHE_DIR
    video_result,      \* what the latest download_video_to_cache did
    cached_at,         \* (url, platform) -> the path its latest successful call returned
    video_calls,       \* calls of download_video_to_cache so far
    video_session,     \* st.session_state of the video downloader page
    temp_dirs,         \* the temporary directories that exist
    max_retries,       \* argument of download_with_retry_and_progress
    attempt,           \* its loop variable
    passes,            \* its passes so far: what download_audio did, the wait after it
    retry_result,      \* what it returned
    db_clock,          \* CURRENT_TIMESTAMP of the announcements database, in seconds
    announcements,     \* table announcements: created_at of the row with id 1, 2, ...
    user_views,        \* table user_views: user_id -> last_seen, None being NULL
    page_shown,        \* what the latest page load showed
    new_marks,         \* the (user, announcement id) pairs marked "New!", in order
    loaded_rows        \* user_id -> the number of announcements at the user's latest load

vars == <<names, week_offset, skip_days, skip_assignments, rng, result, prev,
          prev_offset, calls, other_uses, shuffled, thr, today, wk, week_range,
          pc, weeks, run, all_rosters, csv_buffer, session_state,
          cache_dir, video_result, cached_at, video_calls, video_session, temp_dirs,
          max_retries, attempt, passes, retry_result,
          db_clock, announcements, user_views, page_shown, new_marks,
          loaded_rows>>

rosterVars == <<names, week_offset, skip_days, skip_assignments, rng, result, prev,
                prev_offset, calls, other_uses, shuffled>>

musicVars == <<max_retries, attempt, passes, retry_result>>

NoRetryResult == [returned |-> FALSE, file_path |-> {}, error |-> {}]

\* download_with_retry_and_progress has not been called
NoMusic ==
    /\ max_retries = 0
    /\ attempt = 0
    /\ passes = <<>>
    /\ retry_result = NoRetryResult

announceVars == <<db_clock, announcements, user_views, page_shown, new_marks,
                  loaded_rows>>

NoPageShown == [user |-> "", latest |-> {}, last_seen |-> {}, marked |-> FALSE,
                rows |-> 0, prior_rows |-> {}]

\* the announcements page has not been opened
NoAnnounce ==
    /\ db_clock = 0
    /\ announcements = <<>>
    /\ user_views = <<>>
    /\ page_shown = NoPageShown
    /\ new_marks = <<>>
    /\ loaded_rows = <<>>

videoVars == <<cache_dir, video_result, cached_at, video_calls, video_session,
               temp_dirs>>

\* clear_video_session, video_downloader.py:261-265: the four keys are None
ClearedSession ==
    [video_cached |-> {}, audio_cached |-> {}, video_bytes |-> {}, audio_bytes |-> {}]

NoVideoResult ==
    [outcome |-> "none", url |-> <<>>, platform |-> "", meta_ok |-> FALSE,
     path |-> {}, downloaded |-> FALSE, prior |-> {}]

\* the video downloader has not run
NoVideo ==
    /\ cache_dir = {}
    /\ video_result = NoVideoResult
    /\ cached_at = <<>>
    /\ video_calls = 0
    /\ video_session = ClearedSession
    /\ temp_dirs = {}

pageVars == <<pc, weeks, run, all_rosters, csv_buffer, session_state>>

NoRun == [clicked |-> FALSE, message |-> "none"]

\* the roster page is not open
NoPage ==
    /\ pc = "closed"
    /\ weeks = 0
    /\ run = NoRun
    /\ all_rosters = <<>>
    /\ csv_buffer = <<>>
    /\ session_state = <<>>

\* no thread is inside generate_fair_roster
NoThreads == <<>>

dateVars == <<today, wk, week_range>>

NoRange == [outcome |-> "none", monday |-> 0, sunday |-> 0]

\* no date has been looked at
NoDates ==
    /\ today = 0
    /\ wk = 0
    /\ week_range = NoRange

Init ==
    /\ names \in ParticipantLists
    /\ week_offset \in 0..MaxOffset
    /\ shuffled = ShuffleCache(names, week_offset)
    /\ skip_days = {}
    /\ skip_assignments = <<>>
    /\ rng \in 0..MaxEntropy
    /\ result = NoResult
    /\ prev = NoResult
    /\ prev_offset = week_offset
    /\ calls = 0
    /\ other_uses = 0
    /\ thr = NoThreads
    /\ NoDates
    /\ NoPage
    /\ NoVideo
    /\ NoMusic
    /\ NoAnnounce

\* sidebar, roster.py:225-237: a day's checkbox is ticked
AddSkipDay(day) ==
    /\ calls = 0
    /\ day \notin skip_days
    /\ skip_days' = skip_days \cup {day}
    /\ UNCHANGED <<names, week_offset, skip_assignments, rng, result, prev,
                   prev_offset, calls, other_uses, shuffled>>

\* sidebar, roster.py:244-253: a special assignment is typed for a skipped day
AddSkipAssignment(day, label) ==
    /\ calls = 0
    /\ day \in skip_days
    /\ day \notin DOMAIN skip_assignments
    /\ Cardinality(DOMAIN skip_assignments) < MaxLabelled
    /\ skip_assignments' = [d \in DOMAIN skip_assignments \cup {day} |->
                               IF d = day THEN label ELSE skip_assignments[d]]
    /\ UNCHANGED <<names, week_offset, skip_days, rng, result, prev,
                   prev_offset, calls, other_uses, shuffled>>

Call(k) ==
    /\ calls < MaxCalls
    /\ calls' = calls + 1
    /\ prev' = result
    /\ prev_offset' = week_offset
    /\ week_offset' = k
    /\ result' = generate_fair_roster(names, k, skip_days, skip_assignments, rng, shuffled)
    /\ rng' = result'.rng
    /\ UNCHANGED <<names, skip_days, skip_assignments, other_uses, shuffled>>

\* a call, and a later call with the same arguments (a rerun of the page)
Invoke == Call(week_offset)

\* the call of the next pass of the loop over the weeks, roster.py:352-357
InvokeNextWeek ==
    /\ calls > 0
    /\ Call(week_offset + 1)

\* random.choice in discover_shopify_stores, scraper.py:222, draws from the
\* same module-level generator
OtherRandomUse ==
    /\ other_uses < MaxOtherUses
    /\ other_uses' = other_uses + 1
    /\ rng' = Advance(rng)
    /\ UNCHANGED <<names, week_offset, skip_days, skip_assignments, result, prev,
                   prev_offset, calls, shuffled>>

Next ==
    /\ UNCHANGED <<thr, dateVars, pageVars, videoVars, musicVars, announceVars>>
    /\ \/ \E day \in DaySet : AddSkipDay(day)
       \/ \E day \in DaySet, label \in Labels : AddSkipAssignment(day, label)
       \/ Invoke
       \/ InvokeNextWeek
       \/ OtherRandomUse

Spec == Init /\ [][Next]_vars

(***************************************************************************)
(* generate_fair_roster in several threads (one script run per session,    *)
(* each in a thread of its own).  A thread's locals are in thr[t]; the      *)
(* generator is the one module-level generator, rng.  A step of a thread   *)
(* is one call on the generator (random.seed, random.shuffle) together     *)
(* with the thread-local code before it; a thread switch inside a shuffle  *)
(* is left out, so the behaviours here are a subset of the program's.      *)
(***************************************************************************)
Threads == 1..MaxThreads

\* participant lists of distinct names with two or more names: the lists for
\* which the loop of roster.py:63-65 ends after few repeat shuffles
ThreadLists ==
    {s \in ParticipantLists :
        /\ Len(s) >= 2
        /\ \A a, b \in 1..Len(s) : a # b => s[a] # s[b]}

\* the skip configurations of the threads: three or four assignable days, so
\* that a thread's loop is short and the interleavings can be enumerated
ThreadSkips ==
    {{"Friday", "Saturday", "Sunday"}, {"Thursday", "Friday", "Saturday", "Sunday"}}

ThreadStart(nm, k) ==
    [pc |-> "start", names |-> nm, week_offset |-> k, assignments |-> <<>>,
     attempts |-> 0, outcome |-> "none", roster |-> <<>>]

ThreadInit ==
    /\ thr \in [Threads -> {ThreadStart(nm, k) : nm \in ThreadLists, k \in 0..MaxOffset}]
    /\ skip_days \in ThreadSkips
    /\ skip_assignments = <<>>
    /\ rng \in 0..MaxEntropy
    /\ names = <<>>
    /\ week_offset = 0
    /\ shuffled = <<>>
    /\ result = NoResult
    /\ prev = NoResult
    /\ prev_offset = 0
    /\ calls = 0
    /\ other_uses = 0
    /\ NoDates
    /\ NoPage
    /\ NoVideo
    /\ NoMusic
    /\ NoAnnounce

ThreadFrame ==
    UNCHANGED <<names, week_offset, skip_days, skip_assignments, result, prev,
                prev_offset, calls, other_uses, shuffled, dateVars, pageVars,
                videoVars, musicVars, announceVars>>

\* roster.py:30-57: the early return, divmod, order, counts, the flat list,
\* then random.seed(week_offset) on the global generator
Begin(t) ==
    /\ thr[t].pc = "start"
    /\ IF Len(assign_days(skip_days)) = 0
       THEN /\ thr' = [thr EXCEPT ![t].pc = "done", ![t].outcome = "returned",
                                  ![t].roster = EmptyRoster(skip_assignments)]
            /\ rng' = rng
       ELSE IF Len(thr[t].names) = 0
       THEN /\ thr' = [thr EXCEPT ![t].pc = "done", ![t].outcome = "ZeroDivisionError"]
            /\ rng' = rng
       ELSE /\ thr' = [thr EXCEPT ![t].pc = "seeded",
                                  ![t].assignments =
                                      Assignments(thr[t].names, thr[t].week_offset,
                                                  Len(assign_days(skip_days)))]
            /\ rng' = seed(thr[t].week_offset, rng)
    /\ ThreadFrame

\* roster.py:61-62: random.shuffle(assignments); attempts = 0
FirstShuffle(t) ==
    /\ thr[t].pc = "seeded"
    /\ LET sh == Shuffle(thr[t].assignments, rng)
       IN  /\ thr' = [thr EXCEPT ![t].pc = "loop", ![t].assignments = sh.lst,
                                 ![t].attempts = 0]
           /\ rng' = sh.rng
    /\ ThreadFrame

\* roster.py:63-65: one pass of the while loop
LoopPass(t) ==
    /\ thr[t].pc = "loop"
    /\ has_adjacent(thr[t].assignments) /\ thr[t].attempts < MaxAttempts
    /\ LET sh == Shuffle(thr[t].assignments, rng)
       IN  /\ thr' = [thr EXCEPT ![t].assignments = sh.lst,
                                 ![t].attempts = thr[t].attempts + 1]
           /\ rng' = sh.rng
    /\ ThreadFrame

\* roster.py:63, 67-78: the loop condition is false; map to the week, return
MapToWeek(t) ==
    /\ thr[t].pc = "loop"
    /\ ~(has_adjacent(thr[t].assignments) /\ thr[t].attempts < MaxAttempts)
    /\ LET mw == MapWeek(thr[t].assignments, skip_days, skip_assignments, 1, 0, <<>>)
       IN  thr' = [thr EXCEPT ![t].pc = "done", ![t].outcome = mw.outcome,
                              ![t].roster = mw.roster]
    /\ rng' = rng
    /\ ThreadFrame

ThreadNext ==
    \E t \in Threads :
        \/ Begin(t)
        \/ FirstShuffle(t)
        \/ LoopPass(t)
        \/ MapToWeek(t)

ThreadSpec == ThreadInit /\ [][ThreadNext]_vars

(***************************************************************************)
(* Dates.  A datetime.date is its proleptic Gregorian ordinal (1 is        *)
(* 0001-01-01, a Monday); date.max is 9999-12-31, and date arithmetic that *)
(* leaves date.min..date.max raises OverflowError.                         *)
(***************************************************************************)
DaysBeforeYear(y) ==
    (y - 1) * 365 + ((y - 1) \div 4) - ((y - 1) \div 100) + ((y - 1) \div 400)

IsLeap(y) == (y % 4 = 0) /\ ((y % 100 # 0) \/ (y % 400 = 0))

DaysInMonth(y, m) ==
    IF m = 2 THEN (IF IsLeap(y) THEN 29 ELSE 28)
    ELSE IF m \in {4, 6, 9, 11} THEN 30 ELSE 31

RECURSIVE DaysBeforeMonth(_, _)
DaysBeforeMonth(y, m) ==
    IF m = 1 THEN 0 ELSE DaysBeforeMonth(y, m - 1) + DaysInMonth(y, m - 1)

\* date(y, m, d).toordinal()
Ordinal(y, m, d) == DaysBeforeYear(y) + DaysBeforeMonth(y, m) + d

\* date.max.toordinal()
MaxOrdinal == Ordinal(9999, 12, 31)

YearOf(d) ==
    CHOOSE y \in (((d - 1) \div 366) + 1)..(((d - 1) \div 365) + 1) :
        DaysBeforeYear(y) < d /\ d <= DaysBeforeYear(y + 1)

\* the month of day n of year y
MonthOf(y, n) ==
    CHOOSE m \in 1..12 :
        DaysBeforeMonth(y, m) < n /\ n <= DaysBeforeMonth(y, m) + DaysInMonth(y, m)

\* the year, month and day fields that strftime('%Y-%m-%d') and
\* strftime('%Y%m%d') print
strftime(d) ==
    LET y == YearOf(d)
        n == d - DaysBeforeYear(y)
        m == MonthOf(y, n)
    IN  <<y, m, n - DaysBeforeMonth(y, m)>>

\* the convention with Sunday as day 0
weekday_sunday0(d) == d % 7

\* date.weekday(): Monday is 0
weekday(d) == (d + 6) % 7

\* get_week_date_range, roster.py:9-12
get_week_date_range(date, w) ==
    LET monday == (date - weekday(date)) + 7 * w
        sunday == monday + 6
    IN  IF monday > MaxOrdinal \/ sunday > MaxOrdinal
        THEN [outcome |-> "OverflowError", monday |-> 0, sunday |-> 0]
        ELSE [outcome |-> "returned", monday |-> monday, sunday |-> sunday]

\* the dates drawn: around the turn of a year with 53 ISO weeks, and the last
\* dates a datetime.date can hold
DatePool ==
    {a + k : a \in {Ordinal(2026, 12, 22), MaxOrdinal - MaxDayShift},
             k \in 0..MaxDayShift} \cap 1..MaxOrdinal

DateInit ==
    /\ today \in DatePool
    /\ wk = 0
    /\ week_range = NoRange
    /\ names = <<>>
    /\ week_offset = 0
    /\ skip_days = {}
    /\ skip_assignments = <<>>
    /\ rng = 0
    /\ shuffled = <<>>
    /\ result = NoResult
    /\ prev = NoResult
    /\ prev_offset = 0
    /\ calls = 0
    /\ other_uses = 0
    /\ thr = NoThreads
    /\ NoPage
    /\ NoVideo
    /\ NoMusic
    /\ NoAnnounce

\* a call get_week_date_range(today, w)
GetWeekDateRange(w) ==
    /\ wk' = w
    /\ week_range' = get_week_date_range(today, w)
    /\ UNCHANGED <<names, week_offset, skip_days, skip_assignments, rng, result, prev,
                   prev_offset, calls, other_uses, shuffled, thr, today, pageVars,
                   videoVars, musicVars, announceVars>>

DateNext == \E w \in 0..MaxWeekIndex : GetWeekDateRange(w)

DateSpec == DateInit /\ [][DateNext]_vars

(***************************************************************************)
(* main() of the roster page, roster.py:151-482.  A script run executes    *)
(* main() from the top with the widgets' current values; a click on        *)
(* Generate is a run in which st.button returns True.                      *)
(***************************************************************************)
\* date.isocalendar()[1]: the ISO week of the year, 1..53
IsoWeek1Monday(y) ==
    LET firstday == Ordinal(y, 1, 1)
        firstweekday == (firstday + 6) % 7
        week1monday == firstday - firstweekday
    IN  IF firstweekday > 3 THEN week1monday + 7 ELSE week1monday

isocalendar_week(d) ==
    LET y == YearOf(d)
    IN  IF d < IsoWeek1Monday(y)
        THEN ((d - IsoWeek1Monday(y - 1)) \div 7) + 1
        ELSE IF ((d - IsoWeek1Monday(y)) \div 7) >= 52 /\ d >= IsoWeek1Monday(y + 1)
        THEN 1
        ELSE ((d - IsoWeek1Monday(y)) \div 7) + 1

\* the labels typed for skipped days on the page
SpecialLabels == Labels \cup {"Team Meeting"}

\* the days the page is opened on: a Sunday in ISO week 44, a Wednesday in
\* ISO week 53, a Tuesday in ISO week 1
PageDates == {Ordinal(2026, 11, 1), Ordinal(2026, 12, 30), Ordinal(2027, 1, 5)}

\* an optional value: None, or the value
None == {}

Some(x) == {x}

InfoNames == "Start by entering team member names in the sidebar"

InfoWeeks == "Set the number of weeks to plan in the sidebar"

CsvHeader == <<"Week Start", "Week End", "Day", "Person">>

\* the page checks the weeks only
Validate_weeks_only(nm, w) == IF w = 0 THEN InfoWeeks ELSE "ok"

\* roster.py:278-315: the message the run stops with, or "ok"
Validate(nm, w) ==
    IF Len(nm) = 0 THEN InfoNames
    ELSE IF w = 0 THEN InfoWeeks
    ELSE "ok"

\* rows for the assigned days only
CsvRows_assigned_only(start, end, roster) ==
    LET kept == SelectSeq(roster, LAMBDA e : e.Person \notin {DAY_OFF, NO_ASSIGNMENT})
        week_start == strftime(start)
        week_end == strftime(end)
    IN  [d \in 1..Len(kept) |-> <<week_start, week_end, kept[d].Day, kept[d].Person>>]

\* roster.py:360-366: one row per entry of the week's roster
CsvRows(start, end, roster) ==
    LET week_start == strftime(start)
        week_end == strftime(end)
    IN  [d \in 1..Len(roster) |-> <<week_start, week_end, roster[d].Day, roster[d].Person>>]

\* weekdays.index(day), roster.py:84, 93
DayIndex(day) == CHOOSE j \in 0..(Len(Days) - 1) : Days[j + 1] = day

\* roster.py:90: the assignees create_ics writes no event for
NoEventFor == {"DAY OFF", "GENERAL CLEANING", "NO ASSIGNMENT"}

\* the events of one week, roster.py:87-104; an event is its DTSTART date and
\* its SUMMARY (its UID is a fresh uuid4, its DTSTAMP the time of the call)
WeekEvents(week) ==
    LET kept == SelectSeq(week.roster, LAMBDA e : e.Person \notin NoEventFor)
    IN  [j \in 1..Len(kept) |->
            [DTSTART |-> strftime(week.start + DayIndex(kept[j].Day)),
             SUMMARY |-> kept[j].Person]]

\* create_ics, roster.py:81-106: the events in the order they are written
RECURSIVE create_ics(_)
create_ics(rosters) ==
    IF Len(rosters) = 0 THEN <<>>
    ELSE WeekEvents(Head(rosters)) \o create_ics(Tail(rosters))

\* the shuffle loops of the weeks a Generate click can ask for
PageCache(nm) ==
    IF Len(nm) = 0 THEN <<>>
    ELSE [key \in {<<k, total, seed(k, 0)>> :
                      k \in 0..(Len(nm) - 1), total \in 1..Len(Days)} |->
             ShufflePhase(nm, key[1], key[2], key[3])]

PageInit ==
    /\ names \in ParticipantLists
    /\ shuffled = PageCache(names)
    /\ weeks \in 0..MaxWeeks
    /\ today \in PageDates
    /\ skip_days = {}
    /\ skip_assignments = <<>>
    /\ rng = 0
    /\ week_offset = 0
    /\ result = NoResult
    /\ prev = NoResult
    /\ prev_offset = 0
    /\ calls = 0
    /\ other_uses = 0
    /\ thr = NoThreads
    /\ wk = 0
    /\ week_range = NoRange
    /\ pc = "sidebar"
    /\ run = NoRun
    /\ all_rosters = <<>>
    /\ csv_buffer = <<>>
    /\ session_state = <<>>
    /\ NoVideo
    /\ NoMusic
    /\ NoAnnounce

\* roster.py:228-236: a day's checkbox is ticked, before the first run.  The
\* skip days of the page are the last days of the week: a day is ticked once
\* the days after it are
TickSkipDay(day) ==
    /\ pc = "sidebar"
    /\ \A d \in (DayIndex(day) + 2)..Len(Days) : Days[d] \in skip_days
    /\ AddSkipDay(day)
    /\ UNCHANGED <<thr, dateVars, pageVars, videoVars, musicVars, announceVars>>

\* roster.py:244-252: a special assignment is typed, before the first run
TypeSpecial(day, label) ==
    /\ pc = "sidebar"
    /\ AddSkipAssignment(day, label)
    /\ UNCHANGED <<thr, dateVars, pageVars, videoVars, musicVars, announceVars>>

\* roster.py:162-165: the keys main() sets when they are missing
WithDefaults(state) ==
    [key \in DOMAIN state \cup {"generated_roster", "all_rosters"} |->
        IF key \in DOMAIN state THEN state[key] ELSE None]

\* roster.py:151-350: a script run up to the loop over the weeks, the number
\* input holding w; the locals of main() are those of this run
RunScript(click, w) ==
    /\ weeks' = w
    /\ session_state' = WithDefaults(session_state)
    /\ result' = NoResult
    /\ week_offset' = 0
    /\ wk' = 0
    /\ week_range' = NoRange
    /\ all_rosters' = <<>>
    /\ LET verdict == Validate(names, w)
       IN  IF verdict # "ok"
           THEN /\ pc' = "stopped"
                /\ run' = [clicked |-> click, message |-> verdict]
                /\ csv_buffer' = <<>>
           ELSE IF click
           THEN /\ pc' = "loop"
                /\ run' = [clicked |-> click, message |-> "none"]
                /\ csv_buffer' = <<CsvHeader>>
           ELSE /\ pc' = "ready"
                /\ run' = [clicked |-> click, message |-> "none"]
                /\ csv_buffer' = <<>>
    /\ UNCHANGED <<names, skip_days, skip_assignments, rng, prev,
                   prev_offset, calls, other_uses, shuffled, thr, today,
                   videoVars, musicVars, announceVars>>

\* a run of the script: the page is opened or reloaded (click is FALSE), or
\* Generate is clicked
ScriptRun(click) ==
    /\ pc \in {"sidebar", "ready", "stopped", "done", "crashed"}
    /\ RunScript(click, weeks)

\* roster.py:198-206: the number input is changed, which runs the script
SetWeeks(w) ==
    /\ pc \in {"ready", "stopped", "done", "crashed"}
    /\ w # weeks
    /\ RunScript(FALSE, w)

\* the Regenerate and Clear buttons are drawn by the run that has just ended,
\* roster.py:376-377, 383-384
ButtonsOffered ==
    /\ pc \in {"ready", "done"}
    /\ session_state["generated_roster"] # None

\* a run that ends in st.rerun(), and the run st.rerun() starts
RunThenRerun(state) ==
    /\ session_state' = state
    /\ pc' = "ready"
    /\ run' = NoRun
    /\ result' = NoResult
    /\ week_offset' = 0
    /\ wk' = 0
    /\ week_range' = NoRange
    /\ all_rosters' = <<>>
    /\ csv_buffer' = <<>>
    /\ UNCHANGED <<names, skip_days, skip_assignments, rng, prev,
                   prev_offset, calls, other_uses, shuffled, thr, today, weeks,
                   videoVars, musicVars, announceVars>>

\* roster.py:378-381: a click on Regenerate
Regenerate ==
    /\ ButtonsOffered
    /\ RunThenRerun([session_state EXCEPT !["generated_roster"] = None])

\* roster.py:384-388: a click on Clear
Clear ==
    /\ ButtonsOffered
    /\ RunThenRerun([session_state EXCEPT !["generated_roster"] = None,
                                          !["all_rosters"] = None])

\* roster.py:353-366: one pass of the loop over the weeks
WeekPass ==
    /\ pc = "loop"
    /\ wk < weeks
    /\ week_range' = get_week_date_range(today, wk)
    /\ IF Len(names) = 0
       THEN /\ pc' = "crashed"
            /\ run' = [run EXCEPT !.message = "ZeroDivisionError"]
            /\ UNCHANGED <<week_offset, result, rng, wk, all_rosters, csv_buffer>>
       ELSE /\ week_offset' = ((isocalendar_week(today) - 1) + wk) % Len(names)
            /\ result' = generate_fair_roster(names, week_offset', skip_days,
                                               skip_assignments, rng, shuffled)
            /\ rng' = result'.rng
            /\ IF result'.outcome # "returned"
               THEN /\ pc' = "crashed"
                    /\ run' = [run EXCEPT !.message = result'.outcome]
                    /\ UNCHANGED <<wk, all_rosters, csv_buffer>>
               ELSE /\ all_rosters' = Append(all_rosters,
                                             [start |-> week_range'.monday,
                                              end |-> week_range'.sunday,
                                              roster |-> result'.roster])
                    /\ csv_buffer' = csv_buffer \o CsvRows(week_range'.monday,
                                                           week_range'.sunday,
                                                           result'.roster)
                    /\ wk' = wk + 1
                    /\ UNCHANGED <<pc, run>>
    /\ UNCHANGED <<names, skip_days, skip_assignments, prev, prev_offset, calls,
                   other_uses, shuffled, thr, today, weeks, session_state, videoVars, musicVars, announceVars>>

\* the CSV text is stored once and kept by later Generate clicks
Store_keeps_csv ==
    /\ pc = "loop"
    /\ wk = weeks
    /\ pc' = "done"
    /\ run' = [run EXCEPT !.message = "Roster generated successfully!"]
    /\ session_state' =
          [key \in DOMAIN session_state \cup {"csv_data", "ics_data"} |->
              IF key = "all_rosters" THEN Some(all_rosters)
              ELSE IF key = "csv_data"
              THEN (IF key \in DOMAIN session_state THEN session_state[key]
                    ELSE Some(csv_buffer))
              ELSE IF key = "ics_data" THEN Some(create_ics(all_rosters))
              ELSE IF key = "generated_roster" THEN Some(TRUE)
              ELSE session_state[key]]
    /\ UNCHANGED <<names, week_offset, skip_days, skip_assignments, rng, result, prev,
                   prev_offset, calls, other_uses, shuffled, thr, dateVars, weeks,
                   all_rosters, csv_buffer, videoVars, musicVars, announceVars>>

\* roster.py:368-375: the loop is over; the results go to the session state
Store ==
    /\ pc = "loop"
    /\ wk = weeks
    /\ pc' = "done"
    /\ run' = [run EXCEPT !.message = "Roster generated successfully!"]
    /\ session_state' =
          [key \in DOMAIN session_state \cup {"csv_data", "ics_data"} |->
              IF key = "all_rosters" THEN Some(all_rosters)
              ELSE IF key = "csv_data" THEN Some(csv_buffer)
              ELSE IF key = "ics_data" THEN Some(create_ics(all_rosters))
              ELSE IF key = "generated_roster" THEN Some(TRUE)
              ELSE session_state[key]]
    /\ UNCHANGED <<names, week_offset, skip_days, skip_assignments, rng, result, prev,
                   prev_offset, calls, other_uses, shuffled, thr, dateVars, weeks,
                   all_rosters, csv_buffer, videoVars, musicVars, announceVars>>

PageNext ==
    \/ \E day \in DaySet : TickSkipDay(day)
    \/ \E day \in DaySet, label \in SpecialLabels : TypeSpecial(day, label)
    \/ \E click \in BOOLEAN : ScriptRun(click)
    \/ \E w \in 0..MaxWeeks : SetWeeks(w)
    \/ WeekPass
    \/ Store
    \/ Regenerate
    \/ Clear

PageSpec == PageInit /\ [][PageNext]_vars

(***************************************************************************)
(* The video cache, video_downloader.py:17-187 and 343-355.  Text is a     *)
(* sequence of characters.  yt-dlp is the environment: for a url it        *)
(* reports the media id or fails, and a download fails or leaves one file  *)
(* with some extension (the format asked for decides it).  A step is a     *)
(* click on a button of the page: the script run of the click, which       *)
(* starts with ensure_cache_validity, and the run st.rerun() starts.       *)
(***************************************************************************)
\* two urls: "y/ab" of the media with id "ab", "y/w?v=c" of the one with id "c"
Urls == {<<"y", "/", "a", "b">>, <<"y", "/", "w", "?", "v", "=", "c">>}

\* the id yt-dlp extracts for a url
MediaIdOf(url) == IF url = <<"y", "/", "a", "b">> THEN <<"a", "b">> ELSE <<"c">>

VideoPlatforms == {"YouTube", "TikTok"}

\* the extensions a downloaded file can have
DownloadExts == {"mp4", "webm", "flv"}

\* video_downloader.py:107: the extensions _find_cached_video looks for
LookupExts == <<"mp4", "mkv", "webm", "mov", "avi">>

\* video_downloader.py:40: the characters sanitize_filename removes
IllegalChars == {"\\", "/", "*", "?", ":", "\"", "<", ">", "|"}

sanitize_filename(text) == SelectSeq(text, LAMBDA ch : ch \notin IllegalChars)

\* url.split("/")[-1]
RECURSIVE LastSegment(_)
LastSegment(url) ==
    IF \A j \in 1..Len(url) : url[j] # "/" THEN url
    ELSE LastSegment(Tail(url))

\* os.path.join(CACHE_DIR, f"{platform}_{media_id}.{ext}")
CacheName(platform, media_id, ext) == <<platform, "_">> \o media_id \o <<".", ext>>

\* _find_cached_video, video_downloader.py:106-111, for any extension
RECURSIVE FindFrom(_, _, _, _)
FindFrom(files, platform, media_id, e) ==
    IF e > Len(LookupExts) THEN None
    ELSE IF CacheName(platform, media_id, LookupExts[e]) \in files
    THEN Some(CacheName(platform, media_id, LookupExts[e]))
    ELSE FindFrom(files, platform, media_id, e + 1)

find_cached_video(files, platform, media_id) == FindFrom(files, platform, media_id, 1)

\* the temporary directory of a call, tempfile.mkdtemp(prefix="ydl_")
TempDir == "ydl_"

\* the failed download leaves its temporary directory behind
download_video_to_cache_keeps_temp(files, temps, url, platform, meta_ok, info_ok, dl) ==
    LET media_id == IF meta_ok THEN MediaIdOf(url)
                    ELSE sanitize_filename(LastSegment(url))
        cached == find_cached_video(files, platform, media_id)
        cache_path == CacheName(platform, sanitize_filename(MediaIdOf(url)), dl)
    IN  IF cached # None
        THEN [outcome |-> "returned", path |-> cached, downloaded |-> FALSE,
              files |-> files, temps |-> temps,
              info_id |-> IF info_ok THEN MediaIdOf(url) ELSE media_id]
        ELSE IF dl = "fail"
        THEN [outcome |-> "raised", path |-> None, downloaded |-> TRUE,
              files |-> files, temps |-> temps \cup {TempDir}, info_id |-> <<>>]
        ELSE [outcome |-> "returned", path |-> Some(cache_path), downloaded |-> TRUE,
              files |-> files \cup {cache_path}, temps |-> temps,
              info_id |-> MediaIdOf(url)]

\* download_video_to_cache, video_downloader.py:121-187.  meta_ok: the first
\* extract_info succeeds; info_ok: the one made for a cached file succeeds;
\* dl: "fail", or the extension of the downloaded file.  The temporary
\* directory is made at :144 and removed at :173 and :181
download_video_to_cache(files, temps, url, platform, meta_ok, info_ok, dl) ==
    LET media_id == IF meta_ok THEN MediaIdOf(url)
                    ELSE sanitize_filename(LastSegment(url))
        cached == find_cached_video(files, platform, media_id)
        cache_path == CacheName(platform, sanitize_filename(MediaIdOf(url)), dl)
    IN  IF cached # None
        THEN [outcome |-> "returned", path |-> cached, downloaded |-> FALSE,
              files |-> files, temps |-> temps,
              info_id |-> IF info_ok THEN MediaIdOf(url) ELSE media_id]
        ELSE IF dl = "fail"
        THEN [outcome |-> "raised", path |-> None, downloaded |-> TRUE,
              files |-> files, temps |-> (temps \cup {TempDir}) \ {TempDir},
              info_id |-> <<>>]
        ELSE [outcome |-> "returned", path |-> Some(cache_path), downloaded |-> TRUE,
              files |-> files \cup {cache_path},
              temps |-> (temps \cup {TempDir}) \ {TempDir},
              info_id |-> MediaIdOf(url)]

\* _find_cached_audio, video_downloader.py:114-118
find_cached_audio(files, platform, media_id) ==
    IF CacheName(platform, media_id, "mp3") \in files
    THEN Some(CacheName(platform, media_id, "mp3")) ELSE None

\* extract_audio_from_video, video_downloader.py:190-239.  ffmpeg_ok: ffmpeg
\* is installed and extracts the audio
extract_audio_from_video(files, platform, media_id, ffmpeg_ok) ==
    LET existing == find_cached_audio(files, platform, media_id)
        audio_cache_path == CacheName(platform, sanitize_filename(media_id), "mp3")
    IN  IF existing # None
        THEN [outcome |-> "returned", path |-> existing, files |-> files]
        ELSE IF ~ffmpeg_ok
        THEN [outcome |-> "raised", path |-> None, files |-> files]
        ELSE [outcome |-> "returned", path |-> Some(audio_cache_path),
              files |-> files \cup {audio_cache_path}]

\* clear_audio_session, video_downloader.py:267-269
clear_audio_session(session) ==
    [session EXCEPT !.audio_cached = None, !.audio_bytes = None]

\* the path of an entry of the session exists in the cache directory
PathExists(entry, files) == \A e \in entry : e.path \in files

\* ensure_cache_validity, video_downloader.py:271-279
ensure_cache_validity(session, files) ==
    LET first == IF PathExists(session.video_cached, files) THEN session
                 ELSE ClearedSession
    IN  IF PathExists(first.audio_cached, files) THEN first
        ELSE clear_audio_session(first)

VideoInit ==
    /\ NoVideo
    /\ NoMusic
    /\ NoAnnounce
    /\ names = <<>>
    /\ week_offset = 0
    /\ skip_days = {}
    /\ skip_assignments = <<>>
    /\ rng = 0
    /\ shuffled = <<>>
    /\ result = NoResult
    /\ prev = NoResult
    /\ prev_offset = 0
    /\ calls = 0
    /\ other_uses = 0
    /\ thr = NoThreads
    /\ NoDates
    /\ NoPage

VideoFrame ==
    UNCHANGED <<names, week_offset, skip_days, skip_assignments, rng, result, prev,
                prev_offset, calls, other_uses, shuffled, thr, dateVars, pageVars,
                musicVars, announceVars>>

\* the Download Video button, video_downloader.py:461-480, with a url typed:
\* the call download_video_to_cache(url, platform, ...) and what the handler
\* does with its outcome
DownloadVideo(url, platform, meta_ok, info_ok, dl) ==
    /\ video_calls < MaxVideoCalls
    /\ video_calls' = video_calls + 1
    /\ LET start == ensure_cache_validity(video_session, cache_dir)
           did == download_video_to_cache(cache_dir, temp_dirs, url, platform,
                                          meta_ok, info_ok, dl)
           key == <<url, platform>>
       IN  /\ cache_dir' = did.files
           /\ temp_dirs' = did.temps
           /\ video_result' =
                 [outcome |-> did.outcome, url |-> url, platform |-> platform,
                  meta_ok |-> meta_ok,
                  path |-> did.path, downloaded |-> did.downloaded,
                  prior |-> IF key \in DOMAIN cached_at /\ cached_at[key] \in cache_dir
                            THEN Some(cached_at[key]) ELSE None]
           /\ cached_at' =
                 IF did.outcome = "returned"
                 THEN [k \in DOMAIN cached_at \cup {key} |->
                          IF k = key THEN CHOOSE f \in did.path : TRUE ELSE cached_at[k]]
                 ELSE cached_at
           /\ video_session' =
                 IF did.outcome = "returned"
                 THEN ensure_cache_validity(
                          [start EXCEPT
                              !.video_cached =
                                  {[platform |-> platform, id |-> did.info_id,
                                    path |-> CHOOSE f \in did.path : TRUE]},
                              !.video_bytes = did.path],
                          did.files)
                 ELSE ClearedSession
    /\ VideoFrame

\* the Extract Audio button, video_downloader.py:528-543; it is drawn when
\* video_cached and video_bytes are set, :484
ExtractAudio(ffmpeg_ok) ==
    /\ video_session.video_cached # None
    /\ video_session.video_bytes # None
    /\ LET start == ensure_cache_validity(video_session, cache_dir)
           vc == CHOOSE e \in start.video_cached : TRUE
           did == extract_audio_from_video(cache_dir, vc.platform, vc.id, ffmpeg_ok)
       IN  /\ start.video_cached # None
           /\ cache_dir' = did.files
           /\ video_session' =
                 IF did.outcome = "returned"
                 THEN ensure_cache_validity(
                          [start EXCEPT
                              !.audio_cached =
                                  {[platform |-> vc.platform, id |-> vc.id,
                                    path |-> CHOOSE f \in did.path : TRUE]},
                              !.audio_bytes = did.path],
                          did.files)
                 ELSE start
    /\ UNCHANGED <<video_result, cached_at, video_calls, temp_dirs>>
    /\ VideoFrame

\* the Reset button, video_downloader.py:479-482
Reset ==
    /\ video_session # ClearedSession
    /\ video_session' = ClearedSession
    /\ UNCHANGED <<cache_dir, video_result, cached_at, video_calls, temp_dirs>>
    /\ VideoFrame

\* the Clear All Cache button, video_downloader.py:343-355
ClearAllCache ==
    /\ cache_dir # {}
    /\ cache_dir' = {}
    /\ video_session' = ClearedSession
    /\ UNCHANGED <<video_result, cached_at, video_calls, temp_dirs>>
    /\ VideoFrame

\* the Clear Old Cache button, video_downloader.py:357-372; old: the files
\* last modified more than 24 hours ago
ClearOldCache(old) ==
    /\ old # {}
    /\ cache_dir' = cache_dir \ old
    /\ video_session' =
          ensure_cache_validity(ensure_cache_validity(video_session, cache_dir),
                                cache_dir \ old)
    /\ UNCHANGED <<video_result, cached_at, video_calls, temp_dirs>>
    /\ VideoFrame

VideoNext ==
    \/ \E url \in Urls, platform \in VideoPlatforms, meta_ok \in BOOLEAN,
          info_ok \in BOOLEAN, dl \in DownloadExts \cup {"fail"} :
           DownloadVideo(url, platform, meta_ok, info_ok, dl)
    \/ \E ffmpeg_ok \in BOOLEAN : ExtractAudio(ffmpeg_ok)
    \/ Reset
    \/ ClearAllCache
    \/ \E old \in SUBSET cache_dir : ClearOldCache(old)

VideoSpec == VideoInit /\ [][VideoNext]_vars

(***************************************************************************)
(* download_with_retry_and_progress, music_downloader.py:462-523.  An      *)
(* error text is a sequence of words; `keyword in text` is true when the   *)
(* keyword is one of its words.                                            *)
(***************************************************************************)
\* texts of the exceptions yt_dlp and the code around it raise; <<>> is the
\* empty text of an exception raised without a message
ErrorTexts ==
    {<<>>, <<"Network", "unreachable">>, <<"read", "timeout">>,
     <<"Connection", "reset">>, <<"http", "429">>, <<"video", "unavailable">>,
     <<"sign", "in">>}

\* str.lower, word by word
LowerWord(w) ==
    CASE w = "Network" -> "network"
      [] w = "Connection" -> "connection"
      [] OTHER -> w

lower(text) == [i \in 1..Len(text) |-> LowerWord(text[i])]

Contains(text, keyword) == \E i \in 1..Len(text) : text[i] = keyword

\* music_downloader.py:330-355, for the words of ErrorTexts
get_error_message(error_str) ==
    LET error_lower == lower(error_str)
    IN  IF Contains(error_lower, "unavailable") THEN <<"unavailable">>
        ELSE IF Contains(error_lower, "network") \/ Contains(error_lower, "connection")
        THEN <<"Network error">>
        ELSE IF Contains(error_lower, "timeout") THEN <<"Request timed out">>
        ELSE IF Contains(error_str, "429") THEN <<"Too many requests">>
        ELSE <<"Download failed">> \o error_str

AllFailed == <<"All download attempts failed">>

\* what download_audio does in one call, music_downloader.py:228-327: it
\* returns a file, or returns the text of the exception of its last
\* strategy; "raised" is an exception raised inside the try block of the
\* loop body
AudioOutcomes ==
    {[kind |-> "file", text |-> <<>>]}
        \cup {[kind |-> k, text |-> t] : k \in {"error", "raised"}, t \in ErrorTexts}

\* music_downloader.py:497
RetryableReturned(error) ==
    \E keyword \in {"network", "timeout", "connection", "429"} :
        Contains(lower(error), keyword)

\* music_downloader.py:513
RetryableRaised(error_str) ==
    \E keyword \in {"network", "timeout", "connection"} :
        Contains(lower(error_str), keyword)

\* music_downloader.py:499, 514
wait_time(a) == 2 ^ a

\* one pass of the for loop, music_downloader.py:471-519, for what
\* download_audio did: whether the function returns, with what, and the
\* time slept before the next pass
LoopPassOf(a, retries, out) ==
    IF out.kind = "file"
    THEN [returns |-> TRUE, file_path |-> {"file"}, error |-> {}, slept |-> {}]
    ELSE IF out.kind = "error"
    THEN IF out.text # <<>>
         THEN IF RetryableReturned(out.text) /\ a < retries - 1
              THEN [returns |-> FALSE, file_path |-> {}, error |-> {},
                    slept |-> {wait_time(a)}]
              ELSE [returns |-> TRUE, file_path |-> {},
                    error |-> {get_error_message(out.text)}, slept |-> {}]
         \* `elif error:` is false for the empty text: the pass ends here
         ELSE [returns |-> FALSE, file_path |-> {}, error |-> {}, slept |-> {}]
    ELSE IF a < retries - 1 /\ RetryableRaised(out.text)
         THEN [returns |-> FALSE, file_path |-> {}, error |-> {},
               slept |-> {wait_time(a)}]
         ELSE [returns |-> TRUE, file_path |-> {},
               error |-> {get_error_message(out.text)}, slept |-> {}]

RetryInit ==
    /\ max_retries \in 1..MaxRetries
    /\ attempt = 0
    /\ passes = <<>>
    /\ retry_result = NoRetryResult
    /\ names = <<>>
    /\ week_offset = 0
    /\ skip_days = {}
    /\ skip_assignments = <<>>
    /\ rng = 0
    /\ shuffled = <<>>
    /\ result = NoResult
    /\ prev = NoResult
    /\ prev_offset = 0
    /\ calls = 0
    /\ other_uses = 0
    /\ thr = NoThreads
    /\ NoDates
    /\ NoPage
    /\ NoVideo
    /\ NoAnnounce

\* one pass of the loop; after the last pass the function returns
\* "All download attempts failed", music_downloader.py:521-523
RetryPass(out) ==
    /\ ~retry_result.returned
    /\ attempt < max_retries
    /\ LET did == LoopPassOf(attempt, max_retries, out)
       IN  /\ passes' = Append(passes, [out |-> out, slept |-> did.slept])
           /\ attempt' = IF did.returns THEN attempt ELSE attempt + 1
           /\ retry_result' =
                 IF did.returns
                 THEN [returned |-> TRUE, file_path |-> did.file_path,
                       error |-> did.error]
                 ELSE IF attempt + 1 = max_retries
                 THEN [returned |-> TRUE, file_path |-> {}, error |-> {AllFailed}]
                 ELSE retry_result
    /\ UNCHANGED <<max_retries, rosterVars, thr, dateVars, pageVars, videoVars,
                   announceVars>>

RetryNext == \E out \in AudioOutcomes : RetryPass(out)

RetrySpec == RetryInit /\ [][RetryNext]_vars

(***************************************************************************)
(* The announcements page, announce.py.  A timestamp is a number of        *)
(* seconds: CURRENT_TIMESTAMP and the "%Y-%m-%d %H:%M:%S" texts the page   *)
(* parses and writes have a resolution of one second.                      *)
(***************************************************************************)
Users == {"u1", "u2"}

\* get_latest_announcement, announce.py:26-31: SELECT ... ORDER BY created_at
\* DESC LIMIT 1 returns a row with the largest created_at, any of them when
\* several rows share it
LatestRows(table) ==
    {id \in 1..Len(table) : \A other \in 1..Len(table) : table[other] <= table[id]}

\* get_last_seen, announce.py:34-39: None for a missing row and for NULL
get_last_seen(views, user_id) ==
    IF user_id \in DOMAIN views THEN views[user_id] ELSE None

\* update_last_seen, announce.py:42-46: REPLACE INTO user_views
update_last_seen(views, user_id, timestamp) ==
    [u \in DOMAIN views \cup {user_id} |-> IF u = user_id THEN timestamp ELSE views[u]]

\* announce.py:72: not last_seen or strptime(last_seen) < created_at
IsNew(last_seen, created_at) ==
    last_seen = None \/ \A seen \in last_seen : seen < created_at

AnnounceInit ==
    /\ NoAnnounce
    /\ names = <<>>
    /\ week_offset = 0
    /\ skip_days = {}
    /\ skip_assignments = <<>>
    /\ rng = 0
    /\ shuffled = <<>>
    /\ result = NoResult
    /\ prev = NoResult
    /\ prev_offset = 0
    /\ calls = 0
    /\ other_uses = 0
    /\ thr = NoThreads
    /\ NoDates
    /\ NoPage
    /\ NoVideo
    /\ NoMusic

AnnounceFrame == UNCHANGED <<rosterVars, thr, dateVars, pageVars, videoVars, musicVars>>

\* a second passes
Tick ==
    /\ db_clock < MaxClock
    /\ db_clock' = db_clock + 1
    /\ UNCHANGED <<announcements, user_views, page_shown, new_marks, loaded_rows>>
    /\ AnnounceFrame

\* add_announcement, announce.py:19-23: created_at is CURRENT_TIMESTAMP
add_announcement ==
    /\ Len(announcements) < MaxAnnouncements
    /\ announcements' = Append(announcements, db_clock)
    /\ UNCHANGED <<db_clock, user_views, page_shown, new_marks, loaded_rows>>
    /\ AnnounceFrame

\* the number of announcements at the latest load of user_id before this one
PriorRows(user_id) ==
    IF user_id \in DOMAIN loaded_rows THEN {loaded_rows[user_id]} ELSE {}

\* announce.py:64-81: the page body for user_id, the table user_views being
\* views when it starts; id is the row get_latest_announcement returned
ShowLatest(user_id, views, id) ==
    LET created_at == announcements[id]
        marked == IsNew(get_last_seen(views, user_id), created_at)
    IN  /\ page_shown' = [user |-> user_id, latest |-> {id},
                          last_seen |-> get_last_seen(views, user_id),
                          marked |-> marked, rows |-> Len(announcements),
                          prior_rows |-> PriorRows(user_id)]
        /\ new_marks' = IF marked THEN Append(new_marks, <<user_id, id>>)
                        ELSE new_marks
        /\ user_views' = update_last_seen(views, user_id, Some(created_at))

\* announce.py:67-83: what the page shows and writes
PageRows(user_id, views) ==
    IF announcements = <<>>
    THEN /\ page_shown' = [user |-> user_id, latest |-> {},
                           last_seen |-> get_last_seen(views, user_id),
                           marked |-> FALSE, rows |-> 0,
                           prior_rows |-> PriorRows(user_id)]
         /\ user_views' = views
         /\ UNCHANGED new_marks
    ELSE \E id \in LatestRows(announcements) : ShowLatest(user_id, views, id)

\* announce.py:64-83
PageBody(user_id, views) ==
    /\ loaded_rows' = [u \in DOMAIN loaded_rows \cup {user_id} |->
                          IF u = user_id THEN Len(announcements) ELSE loaded_rows[u]]
    /\ PageRows(user_id, views)

\* a page load of a session that holds user_id, announce.py:61-83
LoadPage(user_id) ==
    /\ PageBody(user_id, user_views)
    /\ UNCHANGED <<db_clock, announcements>>
    /\ AnnounceFrame

\* the user id is typed into a new session, announce.py:54-60, and the run
\* experimental_rerun starts
EnterUserId(user_id) ==
    /\ PageBody(user_id,
                IF get_last_seen(user_views, user_id) = None
                THEN update_last_seen(user_views, user_id, None)
                ELSE user_views)
    /\ UNCHANGED <<db_clock, announcements>>
    /\ AnnounceFrame

AnnounceNext ==
    \/ Tick
    \/ add_announcement
    \/ \E user_id \in Users : LoadPage(user_id)
    \/ \E user_id \in Users : EnterUserId(user_id)

AnnounceSpec == AnnounceInit /\ [][AnnounceNext]_vars

(***************************************************************************)
(* Vocabulary of the properties.                                           *)
(***************************************************************************)
Called == calls > 0

HasReturned(r) == r.outcome = "returned"

Participants == {names[i] : i \in 1..Len(names)}

Distinct == \A i, j \in 1..Len(names) : i # j => names[i] # names[j]

Total == Len(Days) - Cardinality(skip_days)

\* the non-skip days a roster gives to p
DaysOf(roster, p) ==
    Cardinality({d \in 1..Len(roster) :
                    roster[d].Day \notin skip_days /\ roster[d].Person = p})

\* two consecutive weekdays, both non-skip, with the same assignee
ConsecutiveRepeat(roster) ==
    \E d \in 1..(Len(roster) - 1) :
        /\ Days[d] \notin skip_days
        /\ Days[d + 1] \notin skip_days
        /\ roster[d].Person = roster[d + 1].Person

InDayOrder(roster) ==
    /\ Len(roster) = Len(Days)
    /\ \A d \in 1..Len(Days) : roster[d].Day = Days[d]

Assignee(d) ==
    IF Days[d] \in DOMAIN skip_assignments THEN skip_assignments[Days[d]] ELSE DAY_OFF

\* the successor of p in the participant list, cyclically
NextInList(p) ==
    names[((CHOOSE i \in 1..Len(names) : names[i] = p) % Len(names)) + 1]

\* the participants a roster gives base + 1 non-skip days
ExtraHolders(roster) ==
    {p \in Participants : DaysOf(roster, p) = (Total \div Len(names)) + 1}

(***************************************************************************)
(* C1.  For every non-empty participant list, every week_offset and every  *)
(* skip configuration, the call returns exactly 7 records, one per weekday *)
(* label, in the order Monday .. Sunday.                                   *)
(***************************************************************************)
C1_SevenRecordsInDayOrder ==
    (Called /\ Len(names) >= 1)
        => (HasReturned(result) /\ InDayOrder(result.roster))

(***************************************************************************)
(* C2.  For every input with at least one assignable day, the numbers of   *)
(* non-skip days assigned to any two participants differ by at most 1.     *)
(* C2_FairnessEveryList states it for every participant list,              *)
(* C2_FairnessDistinct for lists of distinct names.                        *)
(***************************************************************************)
FairCounts(roster) ==
    \A p, q \in Participants : DaysOf(roster, p) - DaysOf(roster, q) <= 1

C2_FairnessEveryList ==
    (Called /\ HasReturned(result) /\ Total >= 1) => FairCounts(result.roster)

C2_FairnessDistinct ==
    (Called /\ HasReturned(result) /\ Total >= 1 /\ Distinct)
        => FairCounts(result.roster)

C2_Witness ==
    /\ Called /\ HasReturned(result) /\ Distinct
    /\ Len(names) = 3 /\ Total = 5
    /\ \E p, q \in Participants : DaysOf(result.roster, p) = DaysOf(result.roster, q) + 1

(***************************************************************************)
(* C3.  A call with an empty participant list fails with InvalidInputError *)
(* and produces no roster, for every week_offset and skip configuration,   *)
(* the fully skipped week included.                                        *)
(***************************************************************************)
C3_EmptyListRejected ==
    (Called /\ Len(names) = 0)
        => (result.outcome = "InvalidInputError" /\ result.roster = <<>>)

(***************************************************************************)
(* C4.  The call fails only on an empty participant list: for a non-empty  *)
(* list it raises nothing and returns a well-formed 7-entry roster, each   *)
(* assignee being a participant, a special label or a sentinel.            *)
(***************************************************************************)
C4_FailsOnlyOnEmptyList ==
    (Called /\ Len(names) >= 1)
        => /\ result.outcome \notin {"ZeroDivisionError", "IndexError"}
           /\ Len(result.roster) = Len(Days)
           /\ \A d \in 1..Len(result.roster) :
                 result.roster[d].Person \in
                     Participants \cup Labels \cup {DAY_OFF, NO_ASSIGNMENT}

(***************************************************************************)
(* C5.  Two calls with identical arguments return identical rosters,       *)
(* whatever was drawn from the global generator before or between them.    *)
(***************************************************************************)
C5_SameArgumentsSameRoster ==
    (calls >= 2 /\ prev_offset = week_offset)
        => (result.outcome = prev.outcome /\ result.roster = prev.roster)

C5_Witness ==
    /\ calls >= 2 /\ prev_offset = week_offset /\ other_uses >= 1
    /\ HasReturned(result) /\ Distinct /\ Len(names) = 3 /\ Total = 7
    /\ rng # prev.rng

C7_NoConsecutiveRepeat ==
    (Called /\ HasReturned(result) /\ Len(names) >= 2)
        => ~ConsecutiveRepeat(result.roster)

C7_RepeatOnlyWhenExhausted ==
    (Called /\ HasReturned(result) /\ Len(names) >= 2
            /\ ConsecutiveRepeat(result.roster))
        => result.attempts = MaxAttempts

C7_Witness ==
    /\ Called /\ HasReturned(result) /\ Len(names) >= 2
    /\ ConsecutiveRepeat(result.roster)
    /\ result.attempts = MaxAttempts

(***************************************************************************)
(* C8.  For distinct participants and a fixed skip configuration with      *)
(* 0 < extra < n, the participants who receive base + 1 days for           *)
(* week_offset k + 1 are those for week_offset k, each moved one position  *)
(* on in the participant list, cyclically.                                 *)
(***************************************************************************)
ConsecutiveWeeks ==
    /\ calls >= 2 /\ week_offset = prev_offset + 1
    /\ HasReturned(prev) /\ HasReturned(result)
    /\ Distinct
    /\ Len(names) >= 1
    /\ 0 < Total % Len(names)

C8_ExtraRotatesByOne ==
    ConsecutiveWeeks
        => ExtraHolders(result.roster) = {NextInList(p) : p \in ExtraHolders(prev.roster)}

C8_Witness ==
    /\ ConsecutiveWeeks
    /\ Len(names) = 3 /\ Total % Len(names) = 2
    /\ Cardinality(ExtraHolders(prev.roster)) = 2

(***************************************************************************)
(* C9.  When all 7 weekdays are skipped the call returns 7 records and     *)
(* none of them has a participant as assignee.                             *)
(***************************************************************************)
C9_FullSkipNamesNoParticipant ==
    (Called /\ skip_days = DaySet)
        => /\ HasReturned(result)
           /\ InDayOrder(result.roster)
           /\ \A d \in 1..Len(result.roster) : result.roster[d].Person \notin Participants

C9_Witness ==
    /\ Called /\ skip_days = DaySet /\ Len(names) >= 2
    /\ DOMAIN skip_assignments # {}
    /\ HasReturned(result)

(***************************************************************************)
(* C10.  With a single participant the call raises no error and maps every *)
(* non-skip day to that participant, for every week_offset and skip        *)
(* configuration.                                                          *)
(***************************************************************************)
C10_SingleParticipantTakesAll ==
    (Called /\ Len(names) = 1)
        => /\ HasReturned(result)
           /\ \A d \in 1..Len(Days) :
                 Days[d] \notin skip_days => result.roster[d].Person = names[1]

C10_Witness ==
    /\ Called /\ Len(names) = 1 /\ HasReturned(result)
    /\ Total >= 2 /\ skip_days # {}
    /\ result.attempts = MaxAttempts

(***************************************************************************)
(* C12.  The call terminates for every non-empty participant list: the     *)
(* adjacency-avoidance loop makes at most 1000 repeat shuffles, after which *)
(* its condition is false, and the list it stopped on is the one mapped to  *)
(* the non-skip days, also when adjacency cannot be avoided (one            *)
(* participant).                                                            *)
(***************************************************************************)
\* the condition of the while loop of roster.py:63 is false for what r holds
LoopEnded(r) == ~(has_adjacent(r.flat) /\ r.attempts < MaxAttempts)

\* the assignees of the non-skip days of a roster, in day order
NonSkipAssignees(roster) ==
    LET kept == SelectSeq(roster, LAMBDA e : e.Day \notin skip_days)
    IN  [j \in 1..Len(kept) |-> kept[j].Person]

C12_LoopBoundedThenAccepts ==
    (Called /\ Len(names) >= 1)
        => /\ result.attempts <= MaxAttempts
           /\ LoopEnded(result)
           /\ (HasReturned(result) /\ Total >= 1)
                  => NonSkipAssignees(result.roster) = result.flat

C12_Witness ==
    /\ Called /\ Len(names) = 1 /\ Total >= 2
    /\ HasReturned(result)
    /\ has_adjacent(result.flat)
    /\ result.attempts = MaxAttempts
    /\ NonSkipAssignees(result.roster) = result.flat

(***************************************************************************)
(* C13.  With duplicate names in the participant list each occurrence is a *)
(* slot of its own: the flat assignment list has exactly `total` entries   *)
(* and every assignable day receives an assignee.                          *)
(***************************************************************************)
C13_DuplicatesAreDistinctSlots ==
    (Called /\ Len(names) >= 1 /\ Total >= 1)
        => /\ Len(result.flat) = Total
           /\ HasReturned(result)
           /\ \A d \in 1..Len(Days) :
                 Days[d] \notin skip_days => result.roster[d].Person \in Participants

(***************************************************************************)
(* C19.  A call touches no shared mutable state: it leaves the state of    *)
(* the process-global random generator unchanged and does not mutate its   *)
(* arguments names, skip_days and skip_assignments.                        *)
(***************************************************************************)
C19_CallLeavesSharedStateAlone ==
    [][(calls' = calls + 1)
          => /\ rng' = rng
             /\ names' = names
             /\ skip_days' = skip_days
             /\ skip_assignments' = skip_assignments]_vars

(***************************************************************************)
(* C11.  Concurrent calls from several threads do not interfere: under     *)
(* every interleaving of their steps each call returns the roster it       *)
(* returns when run alone.                                                 *)
(***************************************************************************)
\* what the call of thread t does when nothing else runs
Alone(t) ==
    generate_fair_roster(thr[t].names, thr[t].week_offset, skip_days,
                         skip_assignments, 0, <<>>)

C11_ConcurrentCallsDoNotInterfere ==
    \A t \in Threads :
        thr[t].pc = "done"
            => /\ thr[t].outcome = Alone(t).outcome
               /\ thr[t].roster = Alone(t).roster

(***************************************************************************)
(* C16.  For every date today and every week index i >= 0,                 *)
(* get_week_date_range(today, i) returns (monday, sunday) where monday is  *)
(* a Monday equal to today minus today.weekday() days plus 7 * i days and  *)
(* sunday = monday + 6 days; hence the ranges of consecutive i are         *)
(* contiguous and week 0 contains today.  C16_WeekRangeEveryDate states it *)
(* for every date and index, C16_WeekRangeWithinDateMax for those whose    *)
(* Sunday is no later than date.max.                                       *)
(***************************************************************************)
Applied == week_range # NoRange

\* the Monday on or before today, as an ordinal: ordinal 1 is a Monday
MondayOnOrBefore(d) == d - ((d - 1) % 7)

WeekRangeAsClaimed ==
    /\ week_range.outcome = "returned"
    /\ week_range.monday % 7 = 1
    /\ week_range.monday = MondayOnOrBefore(today) + 7 * wk
    /\ week_range.sunday = week_range.monday + 6
    /\ wk = 0 => (week_range.monday <= today /\ today <= week_range.sunday)
    /\ wk > 0 => week_range.monday = get_week_date_range(today, wk - 1).sunday + 1

C16_WeekRangeEveryDate == Applied => WeekRangeAsClaimed

C16_WeekRangeWithinDateMax ==
    (Applied /\ MondayOnOrBefore(today) + 7 * wk + 6 <= MaxOrdinal)
        => WeekRangeAsClaimed

C16_Witness ==
    /\ Applied /\ week_range.outcome = "returned"
    /\ wk >= 1
    /\ today # MondayOnOrBefore(today)
    /\ YearOf(week_range.monday) # YearOf(week_range.sunday)

(***************************************************************************)
(* C14.  The roster page validates its input before it invokes the         *)
(* scheduler: in every run in which the parsed names list is empty or the  *)
(* week count is unset, execution stops with an informational message      *)
(* before the Generate button, so generate_fair_roster and the             *)
(* `% len(names)` of the offset are never reached with an empty list.      *)
(***************************************************************************)
InvalidInput == Len(names) = 0 \/ weeks = 0

C14_PageValidatesBeforeGenerate ==
    /\ (pc # "sidebar" /\ InvalidInput)
           => /\ pc = "stopped"
              /\ run.message \in {InfoNames, InfoWeeks}
              /\ result = NoResult
    /\ pc \in {"loop", "crashed", "done"} => ~InvalidInput

C14_Witness ==
    /\ pc = "stopped" /\ run.clicked
    /\ Len(names) = 0 /\ weeks >= 1
    /\ run.message = InfoNames

(***************************************************************************)
(* C15.  The loop of a Generate click produces exactly `weeks` entries in  *)
(* increasing week order, and the week_offset passed for week i is         *)
(* ((ISO week of today - 1) + i) mod n, so the offsets of consecutive      *)
(* weeks of one run differ by exactly 1 mod n.                             *)
(***************************************************************************)
LoopOver == pc \in {"done", "crashed"}

C15_LoopProducesWeeksEntries ==
    /\ LoopOver
           => /\ Len(all_rosters) = weeks
              /\ \A j \in 1..Len(all_rosters) :
                    all_rosters[j].start = MondayOnOrBefore(today) + 7 * (j - 1)
    /\ (pc \in {"loop", "done"} /\ wk >= 1)
           => week_offset = ((isocalendar_week(today) - 1) + (wk - 1)) % Len(names)

(***************************************************************************)
(* C17.  create_ics emits exactly one event per roster entry whose         *)
(* assignee is a participant, and none for a skip day, whatever special    *)
(* label or sentinel it carries; the date of an event is the week's start  *)
(* date plus the index of the entry's day within the week (Monday = 0).    *)
(***************************************************************************)
\* the events of the entries of the non-skip days of one week
ParticipantEvents(week) ==
    LET kept == SelectSeq([d \in 1..Len(week.roster) |-> d],
                          LAMBDA d : Days[d] \notin skip_days)
    IN  [j \in 1..Len(kept) |->
            [DTSTART |-> strftime(week.start + (kept[j] - 1)),
             SUMMARY |-> week.roster[kept[j]].Person]]

RECURSIVE AllParticipantEvents(_)
AllParticipantEvents(rosters) ==
    IF Len(rosters) = 0 THEN <<>>
    ELSE ParticipantEvents(Head(rosters)) \o AllParticipantEvents(Tail(rosters))

C17_OneEventPerParticipantEntry ==
    pc = "done"
        => session_state["ics_data"] = Some(AllParticipantEvents(all_rosters))

(***************************************************************************)
(* C18.  The CSV written by a Generate click holds one header row and then *)
(* exactly one row per (week, day) pair, 7 rows per generated week, in     *)
(* week order and then weekday order, each with the week's start date, its *)
(* end date, the day label and the roster's assignee for that day.         *)
(***************************************************************************)
\* the row of day d (1..7) of week w (1..weeks)
CsvRowAsClaimed(w, d) ==
    <<strftime(MondayOnOrBefore(today) + 7 * (w - 1)),
      strftime(MondayOnOrBefore(today) + 7 * (w - 1) + 6),
      Days[d],
      all_rosters[w].roster[d].Person>>

C18_CsvOneRowPerWeekDay ==
    pc = "done"
        => \E csv \in session_state["csv_data"] :
              /\ Len(csv) = 1 + 7 * weeks
              /\ csv[1] = CsvHeader
              /\ \A w \in 1..weeks : \A d \in 1..Len(Days) :
                    csv[1 + 7 * (w - 1) + d] = CsvRowAsClaimed(w, d)

C18_Witness ==
    /\ pc = "done" /\ weeks = 2 /\ Len(names) = 3
    /\ skip_days # {} /\ DOMAIN skip_assignments # {}
    /\ Len(all_rosters) = 2
    /\ YearOf(all_rosters[1].start) # YearOf(all_rosters[2].end)

(***************************************************************************)
(* C20.  Videos are cached: after download_video_to_cache has succeeded    *)
(* for a url and platform, a later call for the same url and platform,     *)
(* made while the cached file still exists, returns that cached path and   *)
(* performs no other download.  Stated for the later calls in which yt-dlp *)
(* reports the media id.                                                   *)
(***************************************************************************)
C20_CachedVideoIsReused ==
    (video_result.prior # None /\ video_result.meta_ok)
        => /\ video_result.outcome = "returned"
           /\ video_result.path = video_result.prior
           /\ ~video_result.downloaded

(***************************************************************************)
(* C22.  For distinct participants and total >= 1 assignable days, with    *)
(* base, extra = divmod(total, n): the participant                         *)
(* names[(week_offset + i) mod n] is assigned exactly base + 1 non-skip    *)
(* days if i < extra and exactly base days otherwise, for every i in       *)
(* 0..n-1.                                                                 *)
(***************************************************************************)
\* the participant at position i (from 0) of the rotated order
Rotated(i) == names[((week_offset + i) % Len(names)) + 1]

C22_ExactCountsInRotatedOrder ==
    (Called /\ Distinct /\ Len(names) >= 1 /\ Total >= 1)
        => /\ HasReturned(result)
           /\ \A i \in 0..(Len(names) - 1) :
                 DaysOf(result.roster, Rotated(i)) =
                     (Total \div Len(names))
                         + (IF i < Total % Len(names) THEN 1 ELSE 0)

C22_Witness ==
    /\ Called /\ Distinct /\ HasReturned(result)
    /\ Len(names) = 3 /\ Total = 4 /\ week_offset = 2
    /\ DaysOf(result.roster, names[3]) = 2
    /\ DaysOf(result.roster, names[1]) = 1
    /\ DaysOf(result.roster, names[2]) = 1

(***************************************************************************)
(* C23.  The shuffle loop stops at the first shuffle whose flat list has   *)
(* no two equal neighbours: if the returned roster has the same assignee   *)
(* on two successive assignable days (skip days in between ignored), then  *)
(* exactly 1000 repeat shuffles were performed after the initial shuffle.  *)
(***************************************************************************)
C23_AdjacentOnlyAfterAllAttempts ==
    (Called /\ HasReturned(result) /\ Total >= 1
            /\ has_adjacent(NonSkipAssignees(result.roster)))
        => result.attempts = MaxAttempts

C23_Witness ==
    /\ Called /\ HasReturned(result) /\ Total >= 2
    /\ has_adjacent(NonSkipAssignees(result.roster))
    /\ ~ConsecutiveRepeat(result.roster)
    /\ result.attempts = MaxAttempts

(***************************************************************************)
(* C24.  For distinct participants and skip_assignments keys within        *)
(* skip_days, the walk over the 7 days consumes the shuffled flat list in  *)
(* list order, one entry per non-skip day: the index never goes out of     *)
(* bounds and, when the walk ends, equals the list length.                 *)
(***************************************************************************)
C24_WalkConsumesListInOrder ==
    (Called /\ Distinct /\ Len(names) >= 1 /\ Total >= 1
            /\ DOMAIN skip_assignments \subseteq skip_days)
        => /\ result.outcome # "IndexError"
           /\ HasReturned(result)
           /\ result.idx = Len(result.flat)
           /\ NonSkipAssignees(result.roster) = result.flat

C24_Witness ==
    /\ Called /\ Distinct /\ HasReturned(result)
    /\ Len(names) = 3 /\ Total = 4
    /\ DOMAIN skip_assignments # {}
    /\ "Monday" \in skip_days /\ "Sunday" \notin skip_days
    /\ result.idx = 4 /\ Len(result.flat) = 4

(***************************************************************************)
(* C21.  download_with_retry_and_progress makes at most max_retries calls  *)
(* of download_audio; it goes on to another call only after an error whose *)
(* text contains network, timeout, connection or 429, with attempts        *)
(* remaining and after waiting 2**attempt seconds; on any other error it   *)
(* returns at once with a user-facing error; and it returns the file as    *)
(* soon as a call succeeds.                                                *)
(***************************************************************************)
\* pass i failed with a text that has one of the four keywords
FailedRetryably(i) ==
    /\ passes[i].out.kind # "file"
    /\ RetryableReturned(passes[i].out.text)

\* the function returned in pass i
ReturnedIn(i) == i = Len(passes) /\ retry_result.returned

C21_RetriesOnlyOnRetryableErrors ==
    /\ Len(passes) <= max_retries
    /\ \A i \in 1..Len(passes) :
          /\ (i < Len(passes) \/ ~retry_result.returned)
                => /\ FailedRetryably(i)
                   /\ i < max_retries
                   /\ passes[i].slept = {2 ^ (i - 1)}
          /\ (passes[i].out.kind # "file" /\ ~FailedRetryably(i))
                => (ReturnedIn(i) /\ retry_result.error # {}
                       /\ retry_result.file_path = {})
          /\ passes[i].out.kind = "file"
                => (ReturnedIn(i) /\ retry_result.file_path # {}
                       /\ retry_result.error = {})

(***************************************************************************)
(* C25.  In every reachable session state of the roster page, under any    *)
(* sequence of Generate, Regenerate and Clear clicks and reruns, whenever   *)
(* session_state['all_rosters'] is non-empty the keys 'csv_data' and       *)
(* 'ics_data' are present and hold the exports of that same list of        *)
(* rosters.                                                                *)
(***************************************************************************)
\* st.session_state.get(key)
Get(key) == IF key \in DOMAIN session_state THEN session_state[key] ELSE None

\* the CSV rows of a list of week rosters, after the header
RECURSIVE CsvOf(_)
CsvOf(rosters) ==
    IF Len(rosters) = 0 THEN <<>>
    ELSE CsvRows(Head(rosters).start, Head(rosters).end, Head(rosters).roster)
             \o CsvOf(Tail(rosters))

C25_ExportsMatchStoredRosters ==
    \A stored \in Get("all_rosters") :
        Len(stored) > 0
            => /\ {"csv_data", "ics_data"} \subseteq DOMAIN session_state
               /\ session_state["csv_data"] = Some(<<CsvHeader>> \o CsvOf(stored))
               /\ session_state["ics_data"] = Some(create_ics(stored))

C25_Witness ==
    /\ pc = "ready" /\ weeks = 1
    /\ Get("generated_roster") = None
    /\ \E stored \in Get("all_rosters") :
          /\ Len(stored) = 2
          /\ session_state["csv_data"] = Some(<<CsvHeader>> \o CsvOf(stored))

(***************************************************************************)
(* C26.  In every reachable session state of the roster page,              *)
(* session_state['generated_roster'] is truthy exactly when                *)
(* session_state['all_rosters'] is non-None: the Regenerate and Clear       *)
(* controls are offered if and only if a generated roster is displayed.    *)
(***************************************************************************)
C26_ControlsIffRosterDisplayed ==
    (Get("generated_roster") = Some(TRUE)) <=> (Get("all_rosters") # None)

(***************************************************************************)
(* C30.  For a fixed participant list, the week_offset the Generate action *)
(* assigns to a calendar week does not depend on the day the roster is     *)
(* generated: generating today for the week i weeks ahead gives the        *)
(* week_offset that generating during that week with i = 0 gives, also     *)
(* when the planned range crosses an ISO year boundary.                    *)
(***************************************************************************)
\* the week_offset of a Generate click made on day d, for its week 0
OffsetGeneratedOn(d) == ((isocalendar_week(d) - 1) + 0) % Len(names)

C30_OffsetIndependentOfGenerationDay ==
    (pc \in {"loop", "done"} /\ wk >= 1)
        => \A d \in week_range.monday..week_range.sunday :
              week_offset = OffsetGeneratedOn(d)

(***************************************************************************)
(* C27.  In the video downloader's session state, after any sequence of    *)
(* Download Video, Extract Audio, Reset, Clear All Cache and Clear Old     *)
(* Cache actions: audio_cached is set only if video_cached is set, and     *)
(* whenever both are set they carry the same platform and media id.        *)
(***************************************************************************)
C27_AudioBelongsToVideo ==
    \A ac \in video_session.audio_cached :
        /\ video_session.video_cached # None
        /\ \A vc \in video_session.video_cached :
              ac.platform = vc.platform /\ ac.id = vc.id

(***************************************************************************)
(* C28.  When the download step of download_video_to_cache fails, the      *)
(* function removes its temporary directory, leaves the cache directory's  *)
(* set of files unchanged, and re-raises; the Download Video handler then  *)
(* clears video_cached, video_bytes, audio_cached and audio_bytes, so no   *)
(* session entry points at a file that was never cached.                   *)
(***************************************************************************)
\* this step is a Download Video click whose download step failed
DownloadFailed ==
    /\ video_calls' = video_calls + 1
    /\ video_result'.outcome = "raised"

C28_FailedDownloadLeavesNothing ==
    [][DownloadFailed
          => /\ video_result'.downloaded
             /\ temp_dirs' = {}
             /\ cache_dir' = cache_dir
             /\ video_session' = ClearedSession]_vars

C28_Witness ==
    /\ video_result.outcome = "raised" /\ video_result.downloaded
    /\ video_calls >= 2
    /\ cache_dir # {}
    /\ \E f \in cache_dir : f[Len(f)] = "mp3"
    /\ temp_dirs = {}
    /\ video_session = ClearedSession

(***************************************************************************)
(* C29.  On the announcements page the latest announcement is marked       *)
(* "New!" for a user exactly when that user's stored last_seen is absent   *)
(* or earlier than the announcement's created_at, and every page load sets *)
(* last_seen to that created_at; hence after a user has loaded the page    *)
(* once, the same announcement is never marked New for that user again,    *)
(* and a later-created announcement is marked New on the next load.        *)
(***************************************************************************)
\* no announcement was marked New twice for one user
MarkedOnce ==
    \A j, k \in 1..Len(new_marks) : new_marks[j] = new_marks[k] => j = k

C29_NewOncePerAnnouncement ==
    /\ MarkedOnce
    /\ \A id \in page_shown.latest :
          get_last_seen(user_views, page_shown.user) = Some(announcements[id])
    /\ \A id \in page_shown.latest :
          page_shown.marked
              <=> \/ page_shown.last_seen = None
                  \/ \E seen \in page_shown.last_seen : seen < announcements[id]
    /\ \A before \in page_shown.prior_rows :
          before < page_shown.rows => page_shown.marked

====
